---- MODULE Spec2Model ----
(***************************************************************************)
(* The physics engine facade of libraries/physics/src/PhysicsEngine.cpp:   *)
(* voxel colliders, entity bodies, hard and easy updates, the shape       *)
(* reference counts they keep in the ShapeManager, and the step loop.      *)
(*                                                                         *)
(* Lengths are integers in units of half a metre, so that 0.5f * scale is  *)
(* exact for the even scales the model draws.  A glm::vec3 is a 3-tuple.   *)
(* A pointer is the thing it points to, or NULL: a rigid body is named by   *)
(* its slot in the heap, a live collision shape by its ShapeInfo (the      *)
(* ShapeManager holds one shape per ShapeInfo).  When the ShapeManager     *)
(* destroys a shape, every pointer still held to it becomes a dangling     *)
(* pointer to the freed address; the allocator may build a later shape at  *)
(* that address, and the pointers then point to the new shape.             *)
(***************************************************************************)
EXTENDS Integers, Sequences, FiniteSets, TLC

VARIABLES
    shapeManager,   \* _shapeManager: ShapeInfo -> reference count (0: no entry)
    voxels,         \* _voxels: PositionHashKey -> VoxelObject
    bodies,         \* the btRigidBody objects that exist: heap slot -> body
    dynamicsWorld,  \* _dynamicsWorld: the collision objects in the simulator
    motionStates,   \* CustomMotionState::_body of every proxy (NULL: none)
    ndebug,         \* the build: TRUE when assert() is compiled out
    aborted,        \* the process was ended by a failed assert or a fault
    last,           \* the last call and what it returned
    clock,          \* _clock: microseconds since its last reset
    timeStep,       \* the timeStep last handed to the world's stepSimulation
    allocator       \* operator new: the freed address the next shape is built
                    \* at (0: an address no pointer holds)

vars == <<shapeManager, voxels, bodies, dynamicsWorld, motionStates, ndebug,
          aborted, last, clock, timeStep, allocator>>

\* The NULL pointer: to a rigid body (a heap slot), and to a shape.
NULL == 0
NoShape == << >>

\* A dangling pointer to the destroyed shape of a ShapeInfo: the freed
\* address (numbered from 1) and what the memory there may still read as.
Freed(info, address) == Append(info, address)
IsDangling(shape) == Len(shape) = Len(Freed(<<0, 0, 0>>, 1))
DescriptorOf(shape) == SubSeq(shape, 1, 3)
AddressOf(shape) == shape[Len(shape)]

----------------------------------------------------------------------------
(* Bounds of the model *)

MaxCoord == 1        \* voxel positions are (i,i,i), i in 0..MaxCoord
MaxScaleIndex == 2   \* voxel scales are 0, 2, .., 2*MaxScaleIndex
MaxKin == 2          \* the proxy reports one of MaxKin kinematic data sets
MaxBodies == 2       \* rigid bodies the heap holds at once
MaxRefCount == 2     \* a shape's reference count is not driven above this
MaxElapsed == 50000  \* the clock is not let run past this many microseconds

----------------------------------------------------------------------------
(* Program constants *)

CF_STATIC_OBJECT == 1
CF_KINEMATIC_OBJECT == 2

MotionTypes == {"MOTION_TYPE_STATIC", "MOTION_TYPE_KINEMATIC", "MOTION_TYPE_DYNAMIC"}

\* The update flags.  Their grouping is the one the interface states:
\* Easy = {Position, Velocity}, Hard = {Shape, Mass, classification change}.
UpdateBits == {"POSITION", "VELOCITY", "MASS", "SHAPE", "MOTION_TYPE"}
PHYSICS_UPDATE_EASY == {"POSITION", "VELOCITY"}
PHYSICS_UPDATE_HARD == {"SHAPE", "MASS", "MOTION_TYPE"}

\* Times handed to the simulator are counted in units of 1/30 microsecond,
\* so that 1.0e-6f * microseconds and 1.0f / 30.0f are both whole numbers.
UnitsPerMicrosecond == 30
MAX_TIMESTEP == 1000000

\* The world-space to simulation-space translation.
originOffset == <<0, 0, 0>>

Vec3(x) == <<x, x, x>>
VecAdd(a, b) == <<a[1] + b[1], a[2] + b[2], a[3] + b[3]>>
VecSub(a, b) == <<a[1] - b[1], a[2] - b[2], a[3] - b[3]>>

----------------------------------------------------------------------------
(* Input sets *)

Proxies == {"p1", "p2"}
Positions == {Vec3(i) : i \in 0..MaxCoord}
Scales == {2 * i : i \in 0..MaxScaleIndex}

\* 0.5f * scale
Half(scale) == scale \div 2

\* Every ShapeInfo (box half-extents) a voxel or a proxy can ask for.
ShapeInfos == {Vec3(Half(s)) : s \in Scales}

\* What a proxy reports when the facade asks it: computeShapeInfo,
\* getMotionType, getMass (positive), getWorldTransform, the velocities that
\* applyVelocities writes, _restitution and _friction.
Report(t, h, k) ==
    [motionType |-> t, shapeInfo |-> h, mass |-> k, position |-> Vec3(k),
     linearVelocity |-> Vec3(k), angularVelocity |-> Vec3(k),
     restitution |-> k, friction |-> k]
Reports == {Report(t, h, k) : t \in MotionTypes, h \in ShapeInfos, k \in 1..MaxKin}

\* What a fault (a call or a read through a NULL or a dangling shape
\* pointer) can do: end the process; run on, a read finding the freed memory
\* as it was left; or run on, a read finding garbage.
FaultOutcomes == {"crash", "continue", "garbage"}

----------------------------------------------------------------------------
(* ShapeManager: the shape cache *)

MIN_HALF_EXTENT == 1
MAX_HALF_EXTENT == 2

\* The cache constructs a shape only for extents in range.
ShapeAccepted(info) ==
    \A i \in 1..3 : info[i] >= MIN_HALF_EXTENT /\ info[i] <= MAX_HALF_EXTENT

\* getShape(info): the shape returned, NULL when the geometry is rejected.
GetShapePtr(info) == IF ShapeAccepted(info) THEN info ELSE NoShape

\* getShape(info): the counts afterwards (hit or miss, the count goes up).
GetShapeCounts(sm, info) ==
    IF ShapeAccepted(info) THEN [sm EXCEPT ![info] = @ + 1] ELSE sm

\* releaseShape: TRUE iff a matching entry exists.  A NULL shape yields an
\* invalid ShapeInfo, which matches nothing.
ReleaseShapeOk(sm, info) == info \in DOMAIN sm /\ sm[info] > 0

\* releaseShape: the counts afterwards; the entry goes when the count is 0.
ReleaseShapeCounts(sm, info) ==
    IF ReleaseShapeOk(sm, info) THEN [sm EXCEPT ![info] = @ - 1] ELSE sm

\* MillimetersPerUnit: the key quantizes a centre to whole millimetres.
MillimetersPerUnit == 500
PositionHashKey(center) ==
    <<center[1] * MillimetersPerUnit, center[2] * MillimetersPerUnit,
      center[3] * MillimetersPerUnit>>

----------------------------------------------------------------------------
(* The simulator library: btCollisionObject, btRigidBody and the world.    *)
(* Each operator is the library call of the same name, as the facade       *)
(* calls it.                                                               *)

\* Activation states of a collision object.
ActivationStates == {"ACTIVE_TAG", "ISLAND_SLEEPING", "WANTS_DEACTIVATION",
                     "DISABLE_DEACTIVATION", "DISABLE_SIMULATION"}

Zero3 == <<0, 0, 0>>

isStaticObject(b) == CF_STATIC_OBJECT \in b.collisionFlags
isKinematicObject(b) == CF_KINEMATIC_OBJECT \in b.collisionFlags
isStaticOrKinematicObject(b) == isStaticObject(b) \/ isKinematicObject(b)

\* isActive(): neither asleep nor out of the simulation.
isActive(b) == b.activationState \notin {"ISLAND_SLEEPING", "DISABLE_SIMULATION"}

setCollisionFlags(b, f) == [b EXCEPT !.collisionFlags = f]
setCollisionShape(b, shape) == [b EXCEPT !.collisionShape = shape]
setWorldTransform(b, pos) == [b EXCEPT !.position = pos]
setLinearVelocity(b, v) == [b EXCEPT !.linearVelocity = v]
setAngularVelocity(b, v) == [b EXCEPT !.angularVelocity = v]
setRestitution(b, r) == [b EXCEPT !.restitution = r]
setFriction(b, f) == [b EXCEPT !.friction = f]

\* setMassProps keeps the static flag in step with the mass: a zero mass
\* marks the object static, a non-zero mass unmarks it.
setMassProps(b, mass) ==
    [b EXCEPT !.mass = mass,
              !.collisionFlags = IF mass = 0 THEN @ \cup {CF_STATIC_OBJECT}
                                 ELSE @ \ {CF_STATIC_OBJECT}]

\* setActivationState does not leave the two DISABLE_ states.
setActivationState(b, s) ==
    IF b.activationState \notin {"DISABLE_DEACTIVATION", "DISABLE_SIMULATION"}
    THEN [b EXCEPT !.activationState = s]
    ELSE b

forceActivationState(b, s) == [b EXCEPT !.activationState = s]

\* activate(forceActivation): static and kinematic objects are activated
\* only when forced.
activate(b, forceActivation) ==
    IF forceActivation \/ ~isStaticOrKinematicObject(b)
    THEN setActivationState(b, "ACTIVE_TAG")
    ELSE b

\* new btRigidBody(mass, motionState, shape, inertia): at rest, active,
\* placed where the motion state says, with the mass properties set; the
\* body keeps the motion state it was made for.
NewRigidBody(mass, motionState, report, shape) ==
    setMassProps([motionState |-> motionState,
                  collisionShape |-> shape, collisionFlags |-> {}, mass |-> 0,
                  position |-> report.position, linearVelocity |-> Zero3,
                  angularVelocity |-> Zero3, restitution |-> 0, friction |-> 0,
                  activationState |-> "ACTIVE_TAG"], mass)

\* The world holds the ground plane that init() puts there, the voxels'
\* collision objects (named by their keys) and the rigid bodies.
EmptyWorld == [ground |-> TRUE, objects |-> {}, rigidBodies |-> {}]

----------------------------------------------------------------------------
(* The facade's state as one record, so that a handler is a function of    *)
(* it: the five program variables, the steps taken so far in the call      *)
(* (events), whether the call ended the process, and the call's result.    *)

Machine ==
    [shapeManager |-> shapeManager, voxels |-> voxels, bodies |-> bodies,
     dynamicsWorld |-> dynamicsWorld, motionStates |-> motionStates,
     allocator |-> allocator,
     events |-> << >>, aborted |-> FALSE, result |-> FALSE]

\* A process that has ended takes no further step.
Ev(st, e) == IF st.aborted THEN st ELSE [st EXCEPT !.events = Append(@, e)]
Return(st, r) == [st EXCEPT !.result = r]
OnBody(st, id, b) == IF st.aborted THEN st ELSE [st EXCEPT !.bodies[id] = b]

\* The process ends at step e.
Abort(st, e) ==
    IF st.aborted THEN st ELSE [st EXCEPT !.events = Append(@, e), !.aborted = TRUE]

\* _dynamicsWorld->addRigidBody(body): a body without a collision shape is
\* not inserted; a static body is put to sleep on insertion.
addRigidBody(st, id) ==
    LET b == st.bodies[id] IN
    IF st.aborted THEN st
    ELSE IF b.collisionShape = NoShape THEN Ev(st, "addRigidBody")
    ELSE Ev([st EXCEPT
                !.bodies[id] = IF isStaticObject(b)
                               THEN setActivationState(b, "ISLAND_SLEEPING")
                               ELSE b,
                !.dynamicsWorld.rigidBodies = @ \cup {id}], "addRigidBody")

\* _dynamicsWorld->removeRigidBody(body)
removeRigidBody(st, id) ==
    Ev([st EXCEPT !.dynamicsWorld.rigidBodies = @ \ {id}], "removeRigidBody")

\* The shape pointers the bodies and the voxels' collision objects hold,
\* and the freed addresses among them.
Pointers(st) ==
    {st.bodies[id].collisionShape : id \in DOMAIN st.bodies}
        \cup {st.voxels[key]._object.collisionShape : key \in DOMAIN st.voxels}
FreedAddresses(st) == {AddressOf(shape) : shape \in {q \in Pointers(st) : IsDangling(q)}}

\* Every held pointer that is one of `from` now is `to`.
Repoint(st, from, to) ==
    [st EXCEPT
        !.bodies = [id \in DOMAIN st.bodies |->
                       IF st.bodies[id].collisionShape \in from
                       THEN setCollisionShape(st.bodies[id], to)
                       ELSE st.bodies[id]],
        !.voxels = [key \in DOMAIN st.voxels |->
                       IF st.voxels[key]._object.collisionShape \in from
                       THEN [st.voxels[key] EXCEPT !._object.collisionShape = to]
                       ELSE st.voxels[key]]]

\* The cache constructs the shape of info (new): at an address no pointer
\* holds, or at the freed address the allocator hands out, and then the
\* pointers still held to that address point to the new shape.
Construct(st, info) ==
    IF st.allocator = 0 THEN st
    ELSE LET atAddress == {shape \in Pointers(st) :
                              IsDangling(shape) /\ AddressOf(shape) = st.allocator}
         IN  [Repoint(st, atAddress, info) EXCEPT !.allocator = 0]

\* _shapeManager.getShape(info): a miss constructs the shape.
getShape(st, info) ==
    LET s1 == IF ShapeAccepted(info) /\ st.shapeManager[info] = 0
              THEN Construct(st, info) ELSE st
    IN  Ev([s1 EXCEPT !.shapeManager = GetShapeCounts(@, info)], "getShape")

\* The cache destroys the shape of info (delete): the pointers held to it
\* dangle, at an address that differs from the other freed addresses.
Destroy(st, info) ==
    LET used == FreedAddresses(st)
        address == CHOOSE a \in 1..(Cardinality(used) + 1) :
                      a \notin used /\ \A b \in 1..(a - 1) : b \in used
    IN  Repoint(st, {info}, Freed(info, address))

\* _shapeManager.releaseShape(info): the shape is destroyed when its last
\* reference goes.
releaseShape(st, info) ==
    LET released == ReleaseShapeOk(st.shapeManager, info)
        s1 == [st EXCEPT !.shapeManager = ReleaseShapeCounts(@, info)]
    IN  Ev(IF released /\ s1.shapeManager[info] = 0 THEN Destroy(s1, info) ELSE s1,
           "releaseShape")

\* info.collectInfo(shape): NULL gives an invalid ShapeInfo (NoShape here),
\* which matches no entry; a dangling pointer gives what the freed memory
\* reads as.
collectInfo(shape, fault) ==
    IF shape = NoShape THEN NoShape
    ELSE IF ~IsDangling(shape) THEN shape
    ELSE IF fault = "continue" THEN DescriptorOf(shape)
    ELSE NoShape

\* A read through a dangling pointer that ends the process.
ReadFaults(shape, fault) == IsDangling(shape) /\ fault = "crash"

\* _shapeManager.releaseShape(shape): collectInfo, then release by ShapeInfo.
releaseShapePtr(st, shape, fault) ==
    IF ReadFaults(shape, fault) THEN Abort(st, "fault")
    ELSE releaseShape(st, collectInfo(shape, fault))

\* assert(cond): ends the process unless the build compiles it out.
assert(st, cond) ==
    IF cond \/ ndebug THEN Ev(st, "assert")
    ELSE Abort(st, "assert failed")

\* A write to a body, recorded as a step of the call.
Mut(st, id, b, e) == Ev(OnBody(st, id, b), e)

\* shape->calculateLocalInertia(mass, inertia) through the body's shape.
\* Through NULL, or through a dangling pointer, the call is a fault: the
\* process ends, or runs on.
ShapeIsLive(st, shape) == shape # NoShape /\ ~IsDangling(shape)
calculateLocalInertia(st, id, fault) ==
    IF ShapeIsLive(st, st.bodies[id].collisionShape) \/ fault # "crash"
    THEN Ev(st, "calculateLocalInertia")
    ELSE Abort(st, "fault")

\* CustomMotionState::applyVelocities: write the proxy's velocities onto
\* its body.
applyVelocities(st, id, report) ==
    Mut(st, id,
        setAngularVelocity(setLinearVelocity(st.bodies[id], report.linearVelocity),
                           report.angularVelocity),
        "applyVelocities")

\* CustomMotionState::applyGravity: the body's gravity is not part of the
\* state kept here.
applyGravity(st, id) == Ev(st, "applyGravity")

\* getMass, calculateLocalInertia, setMassProps and updateInertiaTensor: the
\* mass update of an easy update and of the dynamic case.
updateMass(st, id, report, fault) ==
    LET a == calculateLocalInertia(st, id, fault)
    IN  Ev(Mut(a, id, setMassProps(a.bodies[id], report.mass), "setMassProps"),
           "updateInertiaTensor")

----------------------------------------------------------------------------
(* PhysicsEngine *)

Without(f, x) == [y \in DOMAIN f \ {x} |-> f[y]]
With(f, x, v) == [y \in DOMAIN f \cup {x} |-> IF y = x THEN v ELSE f[y]]

VoxelObject(center, object) == [_trueCenter |-> center, _object |-> object]

\* addVoxel without the lookup of the key: an add at an occupied key
\* replaces the record.
addVoxelOverwrites(st, position, scale) ==
    LET halfExtents == Vec3(Half(scale))
        trueCenter == VecAdd(position, halfExtents)
        key == PositionHashKey(trueCenter)
        shape == GetShapePtr(halfExtents)
        s1 == getShape(st, halfExtents)
        shiftedCenter == VecAdd(VecSub(position, originOffset), halfExtents)
        object == [collisionShape |-> shape, origin |-> shiftedCenter]
    IN  IF shape = NoShape THEN Return(s1, FALSE)
        ELSE Return(Ev([s1 EXCEPT
                !.voxels = With(@, key, VoxelObject(trueCenter, object)),
                !.dynamicsWorld.objects = @ \cup {key}],
                "addCollisionObject"), TRUE)

\* addVoxel without the test of the shape: a rejected size still gets a
\* collision object and a record.
addVoxelUnchecked(st, position, scale) ==
    LET halfExtents == Vec3(Half(scale))
        trueCenter == VecAdd(position, halfExtents)
        key == PositionHashKey(trueCenter)
    IN  IF key \in DOMAIN st.voxels THEN Return(st, FALSE)
        ELSE LET shape == GetShapePtr(halfExtents)
                 s1 == getShape(st, halfExtents)
                 shiftedCenter == VecAdd(VecSub(position, originOffset), halfExtents)
                 object == [collisionShape |-> shape, origin |-> shiftedCenter]
             IN  Return(Ev([s1 EXCEPT
                         !.voxels = With(@, key, VoxelObject(trueCenter, object)),
                         !.dynamicsWorld.objects = @ \cup {key}],
                         "addCollisionObject"), TRUE)

\* btMin
btMin(a, b) == IF a < b THEN a ELSE b

\* stepSimulation without the clamp: the world is advanced by the whole
\* elapsed time.
stepSimulationUnclamped(microseconds) ==
    LET dt == UnitsPerMicrosecond * microseconds
    IN  [clock |-> 0, timeStep |-> dt]

\* void PhysicsEngine::stepSimulation(), given _clock.getTimeMicroseconds():
\* the clock after the call and the timeStep handed to the world.
stepSimulation(microseconds) ==
    LET dt == UnitsPerMicrosecond * microseconds
    IN  [clock |-> 0, timeStep |-> btMin(dt, MAX_TIMESTEP)]

\* bool PhysicsEngine::addVoxel(const glm::vec3& position, float scale)
addVoxel(st, position, scale) ==
    LET halfExtents == Vec3(Half(scale))
        trueCenter == VecAdd(position, halfExtents)
        key == PositionHashKey(trueCenter)
    IN  IF key \in DOMAIN st.voxels THEN Return(st, FALSE)
        ELSE LET shape == GetShapePtr(halfExtents)
                 s1 == getShape(st, halfExtents)
                 shiftedCenter == VecAdd(VecSub(position, originOffset), halfExtents)
                 object == [collisionShape |-> shape, origin |-> shiftedCenter]
             IN  IF shape = NoShape THEN Return(s1, FALSE)
                 ELSE Return(Ev([s1 EXCEPT
                         !.voxels = With(@, key, VoxelObject(trueCenter, object)),
                         !.dynamicsWorld.objects = @ \cup {key}],
                         "addCollisionObject"), TRUE)

\* removeVoxel without the release of the shape.
removeVoxelNoRelease(st, position, scale) ==
    LET halfExtents == Vec3(Half(scale))
        trueCenter == VecAdd(position, halfExtents)
        key == PositionHashKey(trueCenter)
    IN  IF key \notin DOMAIN st.voxels THEN Return(st, FALSE)
        ELSE Return(Ev([st EXCEPT !.dynamicsWorld.objects = @ \ {key},
                                  !.voxels = Without(@, key)],
                       "removeCollisionObject"), TRUE)

\* bool PhysicsEngine::removeVoxel(const glm::vec3& position, float scale)
removeVoxel(st, position, scale) ==
    LET halfExtents == Vec3(Half(scale))
        trueCenter == VecAdd(position, halfExtents)
        key == PositionHashKey(trueCenter)
    IN  IF key \notin DOMAIN st.voxels THEN Return(st, FALSE)
        ELSE LET s1 == Ev([st EXCEPT !.dynamicsWorld.objects = @ \ {key}],
                          "removeCollisionObject")
                 released == ReleaseShapeOk(s1.shapeManager, halfExtents)
                 s2 == assert(releaseShape(s1, halfExtents), released)
             IN  IF s2.aborted THEN s2
                 ELSE Return([s2 EXCEPT !.voxels = Without(@, key)], TRUE)

\* new: the lowest free slot of the heap.
NewBodyId(st) == CHOOSE i \in 1..MaxBodies :
                    /\ i \notin DOMAIN st.bodies
                    /\ \A j \in 1..(i - 1) : j \in DOMAIN st.bodies
HeapHasRoom(st) == \E i \in 1..MaxBodies : i \notin DOMAIN st.bodies

\* bool PhysicsEngine::addEntity(CustomMotionState* motionState)
addEntity(st, p, report) ==
    LET info == report.shapeInfo
        shape == GetShapePtr(info)
        s1 == getShape(st, info)
        id == NewBodyId(st)
        type == report.motionType
        made(b) == [s1 EXCEPT !.bodies = With(@, id, b), !.motionStates[p] = id]
        s2 == CASE type = "MOTION_TYPE_KINEMATIC" ->
                     made(setActivationState(
                          setCollisionFlags(NewRigidBody(0, p, report, shape),
                                            {CF_KINEMATIC_OBJECT}),
                          "DISABLE_DEACTIVATION"))
                [] type = "MOTION_TYPE_DYNAMIC" ->
                     applyGravity(
                         applyVelocities(made(NewRigidBody(report.mass, p, report, shape)),
                                         id, report), id)
                [] OTHER ->
                     made(setCollisionFlags(NewRigidBody(0, p, report, shape),
                                            {CF_STATIC_OBJECT}))
        s3 == OnBody(s2, id, setFriction(setRestitution(s2.bodies[id],
                                  report.restitution), report.friction))
    IN  IF shape = NoShape THEN Return(s1, FALSE)
        ELSE Return(addRigidBody(s3, id), TRUE)

\* bool PhysicsEngine::removeEntity(CustomMotionState* motionState)
removeEntity(st, p, fault) ==
    LET id == st.motionStates[p] IN
    IF id = NULL THEN Return(st, FALSE)
    ELSE LET shape == st.bodies[id].collisionShape
             info == collectInfo(shape, fault)
             s1 == releaseShape(removeRigidBody(st, id), info)
         IN  IF ReadFaults(shape, fault)
             THEN Abort(st, "fault")
             ELSE Return([s1 EXCEPT !.bodies = Without(@, id),
                                    !.motionStates[p] = NULL], TRUE)

\* updateEntityEasy without the test of the Position bit: every easy update
\* writes the proxy's transform onto the body.
updateEntityEasyMovesBody(st, id, report, flags, fault) ==
    LET s1 == Mut(st, id, setWorldTransform(st.bodies[id], report.position),
                  "setWorldTransform")
        s2 == IF "VELOCITY" \in flags
              THEN applyGravity(applyVelocities(s1, id, report), id)
              ELSE s1
        s3 == Mut(s2, id, setRestitution(s2.bodies[id], report.restitution),
                  "setRestitution")
        s4 == Mut(s3, id, setFriction(s3.bodies[id], report.friction), "setFriction")
        s5 == IF "MASS" \in flags THEN updateMass(s4, id, report, fault) ELSE s4
    IN  Mut(s5, id, activate(s5.bodies[id], FALSE), "activate")

\* void PhysicsEngine::updateEntityEasy(body, motionState, flags)
updateEntityEasy(st, id, report, flags, fault) ==
    LET s1 == IF "POSITION" \in flags
              THEN Mut(st, id, setWorldTransform(st.bodies[id], report.position),
                       "setWorldTransform")
              ELSE st
        s2 == IF "VELOCITY" \in flags
              THEN applyGravity(applyVelocities(s1, id, report), id)
              ELSE s1
        s3 == Mut(s2, id, setRestitution(s2.bodies[id], report.restitution),
                  "setRestitution")
        s4 == Mut(s3, id, setFriction(s3.bodies[id], report.friction), "setFriction")
        s5 == IF "MASS" \in flags THEN updateMass(s4, id, report, fault) ELSE s4
    IN  Mut(s5, id, activate(s5.bodies[id], FALSE), "activate")

\* The comparison of the cache's shape with the body's (l.223-229), after
\* getShape: a shape built at the address the body's pointer held compares
\* equal.
swapShape(st, id, newShape, fault) ==
    LET oldShape == st.bodies[id].collisionShape
    IN  IF newShape # oldShape
        THEN releaseShapePtr(Mut(st, id, setCollisionShape(st.bodies[id], newShape),
                                 "setCollisionShape"), oldShape, fault)
        ELSE releaseShapePtr(st, newShape, fault)

\* The shape step of a hard update (flags & PHYSICS_UPDATE_SHAPE).
updateShape(st, id, report, flags, fault) ==
    assert(swapShape(getShape(st, report.shapeInfo), id,
                     GetShapePtr(report.shapeInfo), fault),
           "MASS" \in flags)

\* The switch of a hard update without the zeroing of the velocities in
\* the static case.
updateMotionTypeKeepsVelocity(st, id, report, flags, fault) ==
    LET b == st.bodies[id]
        newType == report.motionType
    IN  CASE newType = "MOTION_TYPE_KINEMATIC" ->
               LET k1 == Mut(st, id,
                             setCollisionFlags(b, (b.collisionFlags
                                 \cup {CF_KINEMATIC_OBJECT}) \ {CF_STATIC_OBJECT}),
                             "setCollisionFlags")
                   k2 == Mut(k1, id, forceActivationState(k1.bodies[id],
                                 "DISABLE_DEACTIVATION"), "forceActivationState")
                   k3 == Mut(k2, id, setMassProps(k2.bodies[id], 0), "setMassProps")
               IN  Ev(k3, "updateInertiaTensor")
          [] newType = "MOTION_TYPE_DYNAMIC" ->
               LET d1 == Mut(st, id,
                             setCollisionFlags(b, b.collisionFlags
                                 \ {CF_KINEMATIC_OBJECT, CF_STATIC_OBJECT}),
                             "setCollisionFlags")
                   d2 == IF "MASS" \notin flags
                         THEN updateMass(d1, id, report, fault)
                         ELSE d1
               IN  Mut(d2, id, activate(d2.bodies[id], TRUE), "activate")
          [] OTHER ->
               LET c1 == Mut(st, id,
                             setCollisionFlags(b, (b.collisionFlags
                                 \cup {CF_STATIC_OBJECT}) \ {CF_KINEMATIC_OBJECT}),
                             "setCollisionFlags")
                   c2 == Mut(c1, id, forceActivationState(c1.bodies[id],
                                 "DISABLE_SIMULATION"), "forceActivationState")
                   c3 == Mut(c2, id, setMassProps(c2.bodies[id], 0), "setMassProps")
                   c4 == Ev(c3, "updateInertiaTensor")
               IN  c4

\* The switch (newType) of a hard update.
updateMotionType(st, id, report, flags, fault) ==
    LET b == st.bodies[id]
        newType == report.motionType
    IN  CASE newType = "MOTION_TYPE_KINEMATIC" ->
               LET k1 == Mut(st, id,
                             setCollisionFlags(b, (b.collisionFlags
                                 \cup {CF_KINEMATIC_OBJECT}) \ {CF_STATIC_OBJECT}),
                             "setCollisionFlags")
                   k2 == Mut(k1, id, forceActivationState(k1.bodies[id],
                                 "DISABLE_DEACTIVATION"), "forceActivationState")
                   k3 == Mut(k2, id, setMassProps(k2.bodies[id], 0), "setMassProps")
               IN  Ev(k3, "updateInertiaTensor")
          [] newType = "MOTION_TYPE_DYNAMIC" ->
               LET d1 == Mut(st, id,
                             setCollisionFlags(b, b.collisionFlags
                                 \ {CF_KINEMATIC_OBJECT, CF_STATIC_OBJECT}),
                             "setCollisionFlags")
                   d2 == IF "MASS" \notin flags
                         THEN updateMass(d1, id, report, fault)
                         ELSE d1
               IN  Mut(d2, id, activate(d2.bodies[id], TRUE), "activate")
          [] OTHER ->
               LET c1 == Mut(st, id,
                             setCollisionFlags(b, (b.collisionFlags
                                 \cup {CF_STATIC_OBJECT}) \ {CF_KINEMATIC_OBJECT}),
                             "setCollisionFlags")
                   c2 == Mut(c1, id, forceActivationState(c1.bodies[id],
                                 "DISABLE_SIMULATION"), "forceActivationState")
                   c3 == Mut(c2, id, setMassProps(c2.bodies[id], 0), "setMassProps")
                   c4 == Ev(c3, "updateInertiaTensor")
                   c5 == Mut(c4, id, setLinearVelocity(c4.bodies[id], Zero3),
                             "setLinearVelocity")
               IN  Mut(c5, id, setAngularVelocity(c5.bodies[id], Zero3),
                       "setAngularVelocity")

\* The classification a body has, read off its collision flags.
OldType(b) ==
    IF isStaticObject(b) THEN "MOTION_TYPE_STATIC"
    ELSE IF isKinematicObject(b) THEN "MOTION_TYPE_KINEMATIC"
    ELSE "MOTION_TYPE_DYNAMIC"

\* updateEntityHard with the easy steps after the switch instead of before.
updateEntityHardEasyLast(st, id, report, flags, fault) ==
    LET s1 == removeRigidBody(st, id)
        s2 == IF "SHAPE" \in flags THEN updateShape(s1, id, report, flags, fault) ELSE s1
        easyUpdate == flags \cap PHYSICS_UPDATE_EASY # {}
        s3 == updateMotionType(s2, id, report, flags, fault)
        s4 == IF easyUpdate THEN updateEntityEasy(s3, id, report, flags, fault) ELSE s3
        s5 == addRigidBody(s4, id)
    IN  Mut(s5, id, activate(s5.bodies[id], FALSE), "activate")

\* void PhysicsEngine::updateEntityHard(body, motionState, flags)
updateEntityHard(st, id, report, flags, fault) ==
    LET s1 == removeRigidBody(st, id)
        s2 == IF "SHAPE" \in flags THEN updateShape(s1, id, report, flags, fault) ELSE s1
        easyUpdate == flags \cap PHYSICS_UPDATE_EASY # {}
        s3 == IF easyUpdate THEN updateEntityEasy(s2, id, report, flags, fault) ELSE s2
        s4 == updateMotionType(s3, id, report, flags, fault)
        s5 == addRigidBody(s4, id)
    IN  Mut(s5, id, activate(s5.bodies[id], FALSE), "activate")

\* bool PhysicsEngine::updateEntity(CustomMotionState* motionState, uint32_t flags)
updateEntity(st, p, report, flags, fault) ==
    LET id == st.motionStates[p] IN
    IF id = NULL THEN Return(st, FALSE)
    ELSE IF flags \cap PHYSICS_UPDATE_HARD # {}
         THEN Return(updateEntityHard(st, id, report, flags, fault), TRUE)
    ELSE IF flags \cap PHYSICS_UPDATE_EASY # {}
         THEN Return(updateEntityEasy(st, id, report, flags, fault), TRUE)
    ELSE Return(st, TRUE)

----------------------------------------------------------------------------
(* The state machine *)

NoCall == [op |-> "init", result |-> FALSE]

\* After the constructor and init(): an empty cache and map, no entity, and
\* the ground plane in the world.  The build is either kind.
Init ==
    /\ shapeManager = [i \in ShapeInfos |-> 0]
    /\ voxels = << >>
    /\ bodies = << >>
    /\ dynamicsWorld = EmptyWorld
    /\ motionStates = [p \in Proxies |-> NULL]
    /\ ndebug \in BOOLEAN
    /\ aborted = FALSE
    /\ last = NoCall
    /\ clock = 0
    /\ timeStep = 0
    /\ allocator = 0

\* The counters the model caps stay within their caps.
WithinBounds(st) == \A i \in ShapeInfos : st.shapeManager[i] <= MaxRefCount

\* A call takes the program from the current state to the handler's; the
\* allocator is then ready to build the next shape at any freed address, or
\* elsewhere.
Commit(st, op) ==
    /\ ~aborted
    /\ \E s \in {st} :
          /\ WithinBounds(s)
          /\ shapeManager' = s.shapeManager
          /\ voxels' = s.voxels
          /\ bodies' = s.bodies
          /\ dynamicsWorld' = s.dynamicsWorld
          /\ motionStates' = s.motionStates
          /\ aborted' = s.aborted
          /\ last' = [op |-> op, result |-> s.result]
          /\ allocator' \in IF s.aborted THEN {0} ELSE {0} \cup FreedAddresses(s)
    /\ UNCHANGED <<ndebug, clock, timeStep>>

AddVoxel(position, scale) ==
    Commit(addVoxel(Machine, position, scale), "addVoxel")

RemoveVoxel(position, scale) ==
    Commit(removeVoxel(Machine, position, scale), "removeVoxel")

AddEntity(p, report) ==
    /\ HeapHasRoom(Machine)
    /\ Commit(addEntity(Machine, p, report), "addEntity")

\* The outcome of a fault is open only when the call runs into one.
Faults(st) == st.aborted /\ st.events[Len(st.events)] = "fault"

Outcomes(crashed) == IF Faults(crashed) THEN FaultOutcomes ELSE {"crash"}

RemoveEntity(p) ==
    LET crashed == removeEntity(Machine, p, "crash") IN
    \E fault \in Outcomes(crashed) :
        Commit(IF fault = "crash" THEN crashed
               ELSE removeEntity(Machine, p, fault), "removeEntity")

UpdateEntity(p, report, flags) ==
    LET crashed == updateEntity(Machine, p, report, flags, "crash") IN
    \E fault \in Outcomes(crashed) :
        Commit(IF fault = "crash" THEN crashed
               ELSE updateEntity(Machine, p, report, flags, fault), "updateEntity")

\* Wall-clock time passes between calls.
Tick(d) ==
    /\ ~aborted
    /\ clock + d <= MaxElapsed
    /\ clock' = clock + d
    /\ UNCHANGED <<shapeManager, voxels, bodies, dynamicsWorld, motionStates,
                   ndebug, aborted, last, timeStep, allocator>>

\* The places and velocities the simulator can give a body: rest and
\* every value a proxy reports.
KinVecs == {Vec3(k) : k \in 0..MaxKin}

\* What a step of the simulator can make of a body that is in the world: a
\* static, sleeping or disabled body stays as it is; any other body stays
\* as it is (the time handed over did not fill a fixed substep) or gets
\* some transform, some linear and some angular velocity, and may be sent
\* towards sleep unless deactivation is disabled.
Stepped(b) ==
    IF isStaticObject(b) \/ ~isActive(b) THEN {b}
    ELSE {b} \cup
         {[b EXCEPT !.position = pos, !.linearVelocity = lin,
                    !.angularVelocity = ang, !.activationState = act] :
            pos \in KinVecs, lin \in KinVecs, ang \in KinVecs,
            act \in IF b.activationState = "DISABLE_DEACTIVATION"
                    THEN {"DISABLE_DEACTIVATION"}
                    ELSE {"ACTIVE_TAG", "WANTS_DEACTIVATION", "ISLAND_SLEEPING"}}

\* A collision object in the world whose shape has been destroyed.
DanglingInWorld(st) ==
    \/ \E id \in st.dynamicsWorld.rigidBodies :
          IsDangling(st.bodies[id].collisionShape)
    \/ \E key \in st.dynamicsWorld.objects :
          IsDangling(st.voxels[key]._object.collisionShape)

\* _dynamicsWorld->stepSimulation(timeStep, MAX_NUM_SUBSTEPS, FIXED_SUBSTEP):
\* the states the simulator can leave.  Without time nothing moves and no
\* shape is read; with time, a destroyed shape in the world is a fault,
\* which can end the process.
worldStep(st, dt) ==
    LET inWorld == st.dynamicsWorld.rigidBodies
        may(id) == IF id \in inWorld /\ dt > 0
                   THEN Stepped(st.bodies[id]) ELSE {st.bodies[id]}
        moved == {[st EXCEPT !.bodies = nb] :
                    nb \in {f \in [DOMAIN st.bodies ->
                                     UNION {may(id) : id \in DOMAIN st.bodies}] :
                                \A id \in DOMAIN st.bodies : f[id] \in may(id)}}
    IN  moved \cup (IF dt > 0 /\ DanglingInWorld(st)
                    THEN {[st EXCEPT !.aborted = TRUE]} ELSE {})

\* stepSimulation(): the facade reads and restarts its clock and hands the
\* clamped timeStep to the simulator, which advances the bodies in it.
StepSimulation ==
    /\ ~aborted
    /\ clock' = stepSimulation(clock).clock
    /\ timeStep' = stepSimulation(clock).timeStep
    /\ \E w \in worldStep(Machine, stepSimulation(clock).timeStep) :
          /\ bodies' = w.bodies
          /\ aborted' = w.aborted
    /\ last' = [op |-> "stepSimulation", result |-> TRUE]
    /\ UNCHANGED <<shapeManager, voxels, dynamicsWorld, motionStates, ndebug,
                   allocator>>

\* All the flag sets a caller can pass.
AllFlags == SUBSET UpdateBits

\* The smaller input sets of the specifications that are about the
\* lifecycle rather than about the update: one report per shape for a
\* static entity and one dynamic entity, and a flag set of each kind
\* (none, shape with and without mass, classification only).
FewReports ==
    {Report("MOTION_TYPE_STATIC", h, 1) : h \in ShapeInfos}
        \cup {Report("MOTION_TYPE_DYNAMIC", Vec3(MIN_HALF_EXTENT), 1)}
FewFlags == {{}, {"SHAPE", "MASS"}, {"SHAPE"}, {"MOTION_TYPE"}}

\* The voxel the update specification keeps beside its entity.
OnePosition == Zero3
OneScale == 2 * MIN_HALF_EXTENT

\* SpecVoxel: voxels of every position and scale, and one entity that
\* comes and goes, changes its shape and can share a voxel's shape.  The
\* entity system registers a proxy only while it is not registered.
NextVoxel ==
    \/ \E position \in Positions, scale \in Scales : AddVoxel(position, scale)
    \/ \E position \in Positions, scale \in Scales : RemoveVoxel(position, scale)
    \/ \E report \in FewReports :
          motionStates["p1"] = NULL /\ AddEntity("p1", report)
    \/ RemoveEntity("p1")
    \/ \E report \in FewReports : UpdateEntity("p1", report, {"SHAPE", "MASS"})

SpecVoxel == Init /\ [][NextVoxel]_vars

\* SpecEntity: two proxies and no voxel; addEntity is called on any proxy,
\* registered or not.
NextEntity ==
    \/ \E p \in Proxies, report \in FewReports : AddEntity(p, report)
    \/ \E p \in Proxies : RemoveEntity(p)
    \/ \E p \in Proxies, report \in FewReports, flags \in FewFlags :
          UpdateEntity(p, report, flags)

SpecEntity == Init /\ [][NextEntity]_vars

\* SpecUpdate: one entity, added with any report and updated with every
\* flag set, and one voxel that can share the entity's shape.  At an update
\* the proxy reports any classification and shape, with the largest
\* kinematic data.
LaterReports ==
    {Report(t, h, MaxKin) : t \in MotionTypes, h \in ShapeInfos}

NextUpdate ==
    \/ AddVoxel(OnePosition, OneScale)
    \/ RemoveVoxel(OnePosition, OneScale)
    \/ \E report \in Reports :
          motionStates["p1"] = NULL /\ AddEntity("p1", report)
    \/ RemoveEntity("p1")
    \/ \E report \in LaterReports, flags \in AllFlags :
          UpdateEntity("p1", report, flags)

SpecUpdate == Init /\ [][NextUpdate]_vars

\* SpecMotion: one entity and no voxel; the proxy reports every
\* classification and kinematic data set, with a box the cache accepts or
\* one it rejects, and the caller passes every flag set.
MotionReports ==
    {Report(t, h, k) : t \in MotionTypes, h \in {Vec3(MIN_HALF_EXTENT), Zero3},
                       k \in 1..MaxKin}

NextMotion ==
    \/ \E report \in MotionReports :
          motionStates["p1"] = NULL /\ AddEntity("p1", report)
    \/ RemoveEntity("p1")
    \/ \E report \in MotionReports, flags \in AllFlags :
          UpdateEntity("p1", report, flags)

SpecMotion == Init /\ [][NextMotion]_vars

\* SpecStep: the step loop.  Time passes in the two whole numbers of
\* microseconds on either side of the maximum timestep.  Between steps a
\* static or a dynamic entity comes and goes, and a voxel of the larger
\* scale is added at one position and removed there, or removed as a voxel
\* of the smaller scale at the position that gives that one the same
\* centre.
Durations == {MAX_TIMESTEP \div UnitsPerMicrosecond,
              MAX_TIMESTEP \div UnitsPerMicrosecond + 1}

StepRemovals ==
    {<<OnePosition, 2 * OneScale>>,
     <<VecAdd(OnePosition, Vec3(Half(OneScale))), OneScale>>}
StepReports ==
    {Report(t, Vec3(MIN_HALF_EXTENT), MaxKin) :
        t \in {"MOTION_TYPE_STATIC", "MOTION_TYPE_DYNAMIC"}}

NextStep ==
    \/ \E d \in Durations : Tick(d)
    \/ StepSimulation
    \/ AddVoxel(OnePosition, 2 * OneScale)
    \/ \E removal \in StepRemovals : RemoveVoxel(removal[1], removal[2])
    \/ \E report \in StepReports :
          motionStates["p1"] = NULL /\ AddEntity("p1", report)
    \/ RemoveEntity("p1")

SpecStep == Init /\ [][NextStep]_vars

----------------------------------------------------------------------------
(* Properties.  A property about one call is stated over every reachable   *)
(* state and every input: the handler applied to the state (Machine) gives *)
(* the state after the call, its result and its steps.                     *)

\* The reference count of a shape; NULL and unknown shapes have none.
Count(sm, shape) == IF shape \in DOMAIN sm THEN sm[shape] ELSE 0

\* The shapes used by what is in the simulator.
BodyShapesInWorld ==
    {bodies[id].collisionShape : id \in dynamicsWorld.rigidBodies} \ {NoShape}
VoxelShapesInWorld ==
    {voxels[key]._object.collisionShape : key \in dynamicsWorld.objects}

VoxelKey(position, scale) == PositionHashKey(VecAdd(position, Vec3(Half(scale))))

\* What the facade's state is made of, without the steps and the result.
Core(st) == <<st.shapeManager, st.voxels, st.bodies, st.dynamicsWorld, st.motionStates>>

\* C1: after any sequence of calls, no shape with reference count 0 is
\* referenced by a body or a voxel collision object that is in the simulator.
C1_NoDeadShapeInWorld ==
    ~aborted =>
        \A shape \in BodyShapesInWorld \cup VoxelShapesInWorld :
            Count(shapeManager, shape) > 0

\* C2: addEntity on a proxy that already has a body does not insert again:
\* the bodies in the simulator, the proxy's body and the shape counts are
\* as before the call.
C2_AddEntityNoDoubleInsert ==
    ~aborted =>
        \A p \in Proxies, report \in Reports :
            (motionStates[p] # NULL /\ HeapHasRoom(Machine)) =>
                LET st == addEntity(Machine, p, report)
                IN  /\ st.dynamicsWorld.rigidBodies = dynamicsWorld.rigidBodies
                    /\ st.motionStates[p] = motionStates[p]
                    /\ st.shapeManager = shapeManager

\* The bodies in the simulator that were made for proxy p.
BodiesInWorldOf(p) == {id \in dynamicsWorld.rigidBodies : bodies[id].motionState = p}

\* C3: a proxy has a body if and only if exactly one body made for it is in
\* the simulator, and every body in the simulator is the body of exactly one
\* proxy.
C3_BodyIffRegistered ==
    ~aborted =>
        /\ \A p \in Proxies :
              motionStates[p] # NULL <=> Cardinality(BodiesInWorldOf(p)) = 1
        /\ \A id \in dynamicsWorld.rigidBodies :
              Cardinality({p \in Proxies : motionStates[p] = id}) = 1

\* C4: a hard update (any flags with a Hard bit) that takes a body from
\* Static to Dynamic leaves it with the static and kinematic flags clear, a
\* non-zero mass equal to the proxy's, and active.
C4_StaticToDynamic ==
    ~aborted =>
        \A p \in Proxies, report \in Reports, flags \in AllFlags,
           fault \in FaultOutcomes :
            (/\ motionStates[p] # NULL
             /\ flags \cap PHYSICS_UPDATE_HARD # {}
             /\ OldType(bodies[motionStates[p]]) = "MOTION_TYPE_STATIC"
             /\ report.motionType = "MOTION_TYPE_DYNAMIC") =>
                LET st == updateEntity(Machine, p, report, flags, fault)
                    b == st.bodies[motionStates[p]]
                IN  ~st.aborted =>
                        /\ b.collisionFlags \cap {CF_STATIC_OBJECT, CF_KINEMATIC_OBJECT} = {}
                        /\ b.mass = report.mass
                        /\ b.mass # 0
                        /\ isActive(b)

\* A call, repeated on the state the first call left.
Fresh(st) == [st EXCEPT !.events = << >>, !.result = FALSE]

\* C5: for a pair the cache accepts whose true centre is free, addVoxel
\* twice returns (true, false) and then removeVoxel twice returns
\* (true, false); the map has one record per canonical centre, and an add at
\* an occupied key leaves the record that is there.
C5_VoxelAddRemoveTwice ==
    ~aborted =>
        /\ \A k \in DOMAIN voxels : k = PositionHashKey(voxels[k]._trueCenter)
        /\ \A position \in Positions, scale \in Scales :
              LET key == VoxelKey(position, scale)
                  a1 == addVoxel(Machine, position, scale)
                  a2 == addVoxel(Fresh(a1), position, scale)
                  r1 == removeVoxel(Fresh(a2), position, scale)
                  r2 == removeVoxel(Fresh(r1), position, scale)
              IN  /\ (ShapeAccepted(Vec3(Half(scale))) /\ key \notin DOMAIN voxels) =>
                        /\ a1.result /\ ~a2.result
                        /\ Core(a2) = Core(a1)
                        /\ ~r1.aborted /\ r1.result
                        /\ ~r2.aborted /\ ~r2.result
                  /\ key \in DOMAIN voxels =>
                        ~a1.result /\ a1.voxels = voxels

\* C5 happens: beside another voxel, a pair is added twice and removed twice
\* with results (true, false, true, false).
C5_Witness ==
    /\ ~aborted /\ DOMAIN voxels # {}
    /\ last.op = "removeVoxel"
    /\ \E position \in Positions, scale \in Scales :
          LET a1 == addVoxel(Machine, position, scale)
              a2 == addVoxel(Fresh(a1), position, scale)
              r1 == removeVoxel(Fresh(a2), position, scale)
              r2 == removeVoxel(Fresh(r1), position, scale)
          IN  /\ VoxelKey(position, scale) \notin DOMAIN voxels
              /\ a1.result /\ ~a2.result /\ r1.result /\ ~r2.result

\* C6 as stated: from every state, addVoxel(p, s) then removeVoxel(p, s)
\* leaves the count of the box of half-extents s/2 as it was.
C6_RoundTripAnyState ==
    ~aborted =>
        \A position \in Positions, scale \in Scales :
            LET a1 == addVoxel(Machine, position, scale)
                r1 == removeVoxel(Fresh(a1), position, scale)
                box == Vec3(Half(scale))
            IN  ~r1.aborted => r1.shapeManager[box] = shapeManager[box]

\* C6 amended: when the true centre of (p, s) holds no record, addVoxel(p, s)
\* then removeVoxel(p, s) leaves every shape count, that of the box of
\* half-extents s/2 among them, as it was.
C6_RoundTripFreeCentre ==
    ~aborted =>
        \A position \in Positions, scale \in Scales :
            LET a1 == addVoxel(Machine, position, scale)
                r1 == removeVoxel(Fresh(a1), position, scale)
            IN  VoxelKey(position, scale) \notin DOMAIN voxels =>
                    /\ ~r1.aborted
                    /\ r1.result = a1.result
                    /\ r1.shapeManager = shapeManager

\* C6 happens: a voxel is added and removed again while a body or another
\* voxel shares its box, whose count goes up and comes back.
C6_Witness ==
    /\ ~aborted
    /\ \E position \in Positions, scale \in Scales :
          LET a1 == addVoxel(Machine, position, scale)
              r1 == removeVoxel(Fresh(a1), position, scale)
              box == Vec3(Half(scale))
          IN  /\ VoxelKey(position, scale) \notin DOMAIN voxels
              /\ box \in BodyShapesInWorld \cup VoxelShapesInWorld
              /\ shapeManager[box] > 0
              /\ a1.result /\ a1.shapeManager[box] = shapeManager[box] + 1
              /\ r1.result /\ r1.shapeManager[box] = shapeManager[box]

\* C7: a hard update with Shape set leaves the counts as they were when the
\* recomputed shape is the one the body has; when it differs, the count of
\* the new descriptor goes up by one and that of the old one down by one.
C7_ShapeUpdateCounts ==
    ~aborted =>
        \A p \in Proxies, report \in Reports, flags \in AllFlags,
           fault \in FaultOutcomes :
            (motionStates[p] # NULL /\ "SHAPE" \in flags) =>
                LET oldShape == bodies[motionStates[p]].collisionShape
                    info == report.shapeInfo
                    st == updateEntity(Machine, p, report, flags, fault)
                IN  ~st.aborted =>
                        IF GetShapePtr(info) = oldShape
                        THEN st.shapeManager = shapeManager
                        ELSE /\ Count(st.shapeManager, info)
                                    = Count(shapeManager, info) + 1
                             /\ Count(st.shapeManager, oldShape)
                                    = Count(shapeManager, oldShape) - 1

\* Everything a call can change.
Unchanged(st) == Core(st) = Core(Machine) /\ ~st.aborted

\* C8: removeEntity and updateEntity on a proxy without a body return false
\* and change nothing; on a registered proxy removeEntity twice returns
\* (true, false) and the second call releases nothing.
C8_NoBodyNoEffect ==
    ~aborted =>
        \A p \in Proxies, outcome \in FaultOutcomes :
            LET r1 == removeEntity(Machine, p, outcome)
                r2 == removeEntity(Fresh(r1), p, outcome)
            IN  /\ motionStates[p] = NULL =>
                    /\ ~r1.result /\ Unchanged(r1)
                    /\ \A report \in Reports, flags \in AllFlags,
                          fault \in FaultOutcomes :
                          LET u == updateEntity(Machine, p, report, flags, fault)
                          IN  ~u.result /\ Unchanged(u)
                /\ motionStates[p] # NULL =>
                    /\ r1.result /\ ~r1.aborted
                    /\ ~r2.result /\ Core(r2) = Core(r1) /\ ~r2.aborted

\* C9: when the cache rejects the geometry, addVoxel returns false and
\* changes nothing, and addEntity returns false, changes nothing and leaves
\* an unregistered proxy without a body.
C9_RejectedGeometry ==
    ~aborted =>
        /\ \A position \in Positions, scale \in Scales :
              ~ShapeAccepted(Vec3(Half(scale))) =>
                  LET a == addVoxel(Machine, position, scale)
                  IN  ~a.result /\ Unchanged(a)
        /\ \A p \in Proxies, report \in Reports :
              ~ShapeAccepted(report.shapeInfo) =>
                  LET a == addEntity(Machine, p, report)
                  IN  /\ ~a.result /\ Unchanged(a)
                      /\ motionStates[p] = NULL => a.motionStates[p] = NULL

\* C9 happens: with voxels and a body in the simulator, a voxel of a
\* rejected size at a free centre and an entity of a rejected size are
\* refused.
C9_Witness ==
    /\ ~aborted
    /\ dynamicsWorld.objects # {} /\ dynamicsWorld.rigidBodies # {}
    /\ \E position \in Positions, scale \in Scales :
          /\ ~ShapeAccepted(Vec3(Half(scale)))
          /\ VoxelKey(position, scale) \notin DOMAIN voxels
          /\ ~addVoxel(Machine, position, scale).result
    /\ \E p \in Proxies, report \in Reports :
          /\ ~ShapeAccepted(report.shapeInfo)
          /\ motionStates[p] = NULL
          /\ ~addEntity(Machine, p, report).result

\* The steps of a call that take the body out of the simulator, swap its
\* shape or change a shape count.
HardSteps == {"removeRigidBody", "getShape", "setCollisionShape", "releaseShape"}

\* C10: an update with Shape set and Mass clear is rejected at the boundary:
\* it is detected before the body is removed, its shape swapped or a count
\* changed, and it is never carried out.
C10_ShapeWithoutMassRejected ==
    ~aborted =>
        \A p \in Proxies, report \in Reports, flags \in AllFlags,
           fault \in FaultOutcomes :
            (motionStates[p] # NULL /\ "SHAPE" \in flags /\ "MASS" \notin flags) =>
                LET st == updateEntity(Machine, p, report, flags, fault)
                IN  /\ Core(st) = Core(Machine)
                    /\ \A i \in 1..Len(st.events) : st.events[i] \notin HardSteps

\* The static and kinematic flags that encode a classification.
FlagsOf(type) ==
    CASE type = "MOTION_TYPE_KINEMATIC" -> {CF_KINEMATIC_OBJECT}
      [] type = "MOTION_TYPE_DYNAMIC" -> {}
      [] OTHER -> {CF_STATIC_OBJECT}

MotionFlags(b) == b.collisionFlags \cap {CF_STATIC_OBJECT, CF_KINEMATIC_OBJECT}

\* C11: after an update with a Hard bit the body's static and kinematic
\* flags encode the classification the proxy reports, whatever the body was
\* before; an update with only Easy bits leaves the two flags as they were.
C11_ClassificationByHardUpdate ==
    ~aborted =>
        \A p \in Proxies, report \in Reports, flags \in AllFlags,
           fault \in FaultOutcomes :
            motionStates[p] # NULL =>
                LET id == motionStates[p]
                    st == updateEntity(Machine, p, report, flags, fault)
                IN  ~st.aborted =>
                        IF flags \cap PHYSICS_UPDATE_HARD # {}
                        THEN MotionFlags(st.bodies[id]) = FlagsOf(report.motionType)
                        ELSE MotionFlags(st.bodies[id]) = MotionFlags(bodies[id])

\* Whether a body is in the simulator.
InWorld(st, id) == id \in st.dynamicsWorld.rigidBodies

\* C12: on a registered dynamic entity, updateEntity with only Velocity set
\* returns true, leaves the body's collision flags, position, shape, mass and
\* membership in the simulator as they were, and sets its linear and angular
\* velocity to the ones the proxy reports.
C12_VelocityOnlyUpdate ==
    ~aborted =>
        \A p \in Proxies, report \in MotionReports, fault \in FaultOutcomes :
            (motionStates[p] # NULL
                /\ OldType(bodies[motionStates[p]]) = "MOTION_TYPE_DYNAMIC") =>
                LET id == motionStates[p]
                    old == bodies[id]
                    st == updateEntity(Machine, p, report, {"VELOCITY"}, fault)
                    b == st.bodies[id]
                IN  /\ st.result /\ ~st.aborted
                    /\ b.collisionFlags = old.collisionFlags
                    /\ b.position = old.position
                    /\ b.collisionShape = old.collisionShape
                    /\ b.mass = old.mass
                    /\ InWorld(st, id) <=> InWorld(Machine, id)
                    /\ b.linearVelocity = report.linearVelocity
                    /\ b.angularVelocity = report.angularVelocity
                    /\ st.shapeManager = shapeManager

\* C12 happens: a dynamic body with a non-zero mass is in the simulator, and
\* a Velocity update gives it a velocity it does not have, at a place other
\* than the one the proxy reports.
C12_Witness ==
    /\ ~aborted
    /\ \E p \in Proxies, report \in MotionReports :
          /\ motionStates[p] # NULL
          /\ LET id == motionStates[p]
                 old == bodies[id]
                 st == updateEntity(Machine, p, report, {"VELOCITY"}, "crash")
             IN  /\ OldType(old) = "MOTION_TYPE_DYNAMIC" /\ old.mass # 0
                 /\ InWorld(Machine, id)
                 /\ old.linearVelocity # report.linearVelocity
                 /\ old.position # report.position
                 /\ st.result
                 /\ st.bodies[id].linearVelocity = report.linearVelocity
                 /\ st.bodies[id].position = old.position

\* C13: on a registered proxy updateEntity returns true for every flag set;
\* with no flag set it changes nothing: not the body, not its membership in
\* the simulator, not a shape count.
C13_UpdateReturnsTrue ==
    ~aborted =>
        \A p \in Proxies, report \in MotionReports, flags \in AllFlags,
           fault \in FaultOutcomes :
            motionStates[p] # NULL =>
                LET st == updateEntity(Machine, p, report, flags, fault)
                IN  /\ ~st.aborted /\ st.result
                    /\ flags = {} => Core(st) = Core(Machine)

\* The elapsed time of the clock, in the units of a timeStep.
Elapsed(microseconds) == UnitsPerMicrosecond * microseconds

\* C14: the timeStep stepSimulation hands to the simulator is the time
\* elapsed since the previous call when that is at most MAX_TIMESTEP, and
\* MAX_TIMESTEP when it is more; it is never above MAX_TIMESTEP; and the
\* clock restarts at each call, so that the call after a stall hands over
\* only the time that passed since the stalled call.
C14_TimestepClamped ==
    LET r == stepSimulation(clock) IN
    /\ timeStep <= MAX_TIMESTEP
    /\ Elapsed(clock) <= MAX_TIMESTEP => r.timeStep = Elapsed(clock)
    /\ Elapsed(clock) > MAX_TIMESTEP => r.timeStep = MAX_TIMESTEP
    /\ r.timeStep <= MAX_TIMESTEP
    /\ r.clock = 0
    /\ \A d \in Durations :
          stepSimulation(r.clock + d).timeStep = btMin(Elapsed(d), MAX_TIMESTEP)

\* C14 happens: a step has just been clamped to MAX_TIMESTEP, and since then
\* less than the maximum has passed, which the next step hands over whole.
C14_Witness ==
    /\ last.op = "stepSimulation"
    /\ timeStep = MAX_TIMESTEP
    /\ clock > 0 /\ Elapsed(clock) < MAX_TIMESTEP
    /\ stepSimulation(clock).timeStep = Elapsed(clock)

\* The steps of a call that write a body's shape, transform, velocity, mass
\* or collision flags.
Mutations == {"setCollisionShape", "setWorldTransform", "applyVelocities",
              "setMassProps", "setCollisionFlags", "setLinearVelocity",
              "setAngularVelocity"}

\* The places in the steps of a call where step e is taken.
StepsAt(st, e) == {i \in 1..Len(st.events) : st.events[i] = e}

\* C15: a hard update removes the body from the simulator once, before the
\* first write to its shape, transform, velocity, mass or collision flags,
\* and reinserts it once, after the last; when updateEntity returns true the
\* body is in the simulator; an update with only Easy bits never removes it.
C15_MutatedWhileDetached ==
    ~aborted =>
        \A p \in Proxies, report \in MotionReports, flags \in AllFlags,
           fault \in FaultOutcomes :
            motionStates[p] # NULL =>
                LET id == motionStates[p]
                    st == updateEntity(Machine, p, report, flags, fault)
                    removes == StepsAt(st, "removeRigidBody")
                    adds == StepsAt(st, "addRigidBody")
                    writes == {i \in 1..Len(st.events) : st.events[i] \in Mutations}
                IN  ~st.aborted =>
                        /\ flags \cap PHYSICS_UPDATE_HARD # {} =>
                              /\ Cardinality(removes) = 1 /\ Cardinality(adds) = 1
                              /\ \A w \in writes, r \in removes, a \in adds :
                                    r < w /\ w < a
                        /\ flags \cap PHYSICS_UPDATE_HARD = {} => removes = {}
                        /\ st.result => InWorld(st, id)

\* C16: an update with Mass set, on a registered proxy that reports Dynamic,
\* leaves the body with the mass the proxy reports, whatever other bits are
\* set.
C16_MassApplied ==
    ~aborted =>
        \A p \in Proxies, report \in MotionReports, flags \in AllFlags,
           fault \in FaultOutcomes :
            (/\ motionStates[p] # NULL
             /\ "MASS" \in flags
             /\ report.motionType = "MOTION_TYPE_DYNAMIC") =>
                LET st == updateEntity(Machine, p, report, flags, fault)
                IN  ~st.aborted => st.bodies[motionStates[p]].mass = report.mass

\* C17: after a hard update whose new classification is Static the body has
\* the static flag set, the kinematic flag clear, zero mass and zero linear
\* and angular velocity, also when the update carries Velocity and Mass and
\* the proxy reports a velocity and a mass: the easy steps come first and
\* the static case overrides them.
C17_StaticIsCanonical ==
    ~aborted =>
        \A p \in Proxies, report \in MotionReports, flags \in AllFlags,
           fault \in FaultOutcomes :
            (/\ motionStates[p] # NULL
             /\ flags \cap PHYSICS_UPDATE_HARD # {}
             /\ report.motionType = "MOTION_TYPE_STATIC") =>
                LET st == updateEntity(Machine, p, report, flags, fault)
                    b == st.bodies[motionStates[p]]
                IN  ~st.aborted =>
                        /\ MotionFlags(b) = {CF_STATIC_OBJECT}
                        /\ b.mass = 0
                        /\ b.linearVelocity = Zero3 /\ b.angularVelocity = Zero3
                        /\ \A e \in StepsAt(st, "applyVelocities") \cup
                                   StepsAt(st, "calculateLocalInertia"),
                              c \in StepsAt(st, "setCollisionFlags") : e < c
                        /\ \A c \in StepsAt(st, "setCollisionFlags") :
                              \E m \in StepsAt(st, "setMassProps"),
                                 v \in StepsAt(st, "setLinearVelocity"),
                                 w \in StepsAt(st, "setAngularVelocity") :
                                  c < m /\ m < v /\ v < w

\* C17 happens: a moving dynamic body with a mass is made Static by an
\* update that also carries Position, Velocity and Mass, whose easy steps
\* write the proxy's velocity and mass before the static case zeroes them.
C17_Witness ==
    /\ ~aborted
    /\ \E p \in Proxies, report \in MotionReports :
          /\ motionStates[p] # NULL
          /\ report.motionType = "MOTION_TYPE_STATIC"
          /\ report.mass # 0 /\ report.linearVelocity # Zero3
          /\ LET id == motionStates[p]
                 old == bodies[id]
                 st == updateEntity(Machine, p, report,
                           {"POSITION", "VELOCITY", "MASS", "MOTION_TYPE"}, "crash")
                 b == st.bodies[id]
             IN  /\ OldType(old) = "MOTION_TYPE_DYNAMIC"
                 /\ old.mass # 0 /\ old.linearVelocity # Zero3
                 /\ InWorld(Machine, id)
                 /\ ~st.aborted /\ st.result
                 /\ StepsAt(st, "applyVelocities") # {}
                 /\ StepsAt(st, "calculateLocalInertia") # {}
                 /\ MotionFlags(b) = {CF_STATIC_OBJECT} /\ b.mass = 0
                 /\ b.linearVelocity = Zero3 /\ b.angularVelocity = Zero3

\* The bodies and the voxel collision objects in the simulator that use a
\* shape.
UsersOf(shape) ==
    Cardinality({id \in dynamicsWorld.rigidBodies :
                    bodies[id].collisionShape = shape})
      + Cardinality({key \in dynamicsWorld.objects :
                    voxels[key]._object.collisionShape = shape})

\* C18: after any sequence of calls, the reference count of every shape
\* descriptor is the number of bodies and voxel collision objects in the
\* simulator that use the shape: removeVoxel releases what addVoxel acquired,
\* nothing is leaked and nothing is released twice.
C18_CountsMatchUsers ==
    ~aborted => \A info \in ShapeInfos : shapeManager[info] = UsersOf(info)

\* C19: every body in the simulator has a collision shape, and the cache
\* holds it; when a hard update with Shape set recomputes a descriptor the
\* cache rejects, the body keeps the shape it has and no count changes.
C19_ShapeNeverNull ==
    ~aborted =>
        /\ \A id \in dynamicsWorld.rigidBodies :
              /\ bodies[id].collisionShape # NoShape
              /\ Count(shapeManager, bodies[id].collisionShape) > 0
        /\ \A p \in Proxies, report \in MotionReports, flags \in AllFlags,
              fault \in FaultOutcomes :
              (/\ motionStates[p] # NULL
               /\ "SHAPE" \in flags
               /\ ~ShapeAccepted(report.shapeInfo)) =>
                  LET id == motionStates[p]
                      st == updateEntity(Machine, p, report, flags, fault)
                  IN  ~st.aborted =>
                          /\ st.bodies[id].collisionShape = bodies[id].collisionShape
                          /\ st.shapeManager = shapeManager

\* A body whose static or kinematic flag is set has zero mass.
MassOnlyIfDynamic(b) == MotionFlags(b) # {} => b.mass = 0

\* C20: in every state reached by addEntity and updateEntity calls with any
\* flags, and after every further such call, a body whose static or
\* kinematic flag is set has zero mass.
C20_MassOnlyIfDynamic ==
    ~aborted =>
        /\ \A id \in DOMAIN bodies : MassOnlyIfDynamic(bodies[id])
        /\ \A p \in Proxies, report \in MotionReports, flags \in AllFlags,
              fault \in FaultOutcomes :
              LET st == updateEntity(Machine, p, report, flags, fault)
              IN  ~st.aborted =>
                      \A id \in DOMAIN st.bodies : MassOnlyIfDynamic(st.bodies[id])
        /\ \A p \in Proxies, report \in MotionReports :
              HeapHasRoom(Machine) =>
                  LET st == addEntity(Machine, p, report)
                  IN  \A id \in DOMAIN st.bodies : MassOnlyIfDynamic(st.bodies[id])

\* C20 happens: a dynamic body with a mass is made Kinematic by an update
\* that carries Position and Mass and a non-zero mass, which the easy steps
\* write and the kinematic case zeroes.
C20_Witness ==
    /\ ~aborted
    /\ \E p \in Proxies, report \in MotionReports :
          /\ motionStates[p] # NULL
          /\ report.motionType = "MOTION_TYPE_KINEMATIC" /\ report.mass # 0
          /\ LET id == motionStates[p]
                 old == bodies[id]
                 st == updateEntity(Machine, p, report, {"POSITION", "MASS"}, "crash")
                 b == st.bodies[id]
             IN  /\ MotionFlags(old) = {} /\ old.mass # 0
                 /\ ~st.aborted /\ st.result
                 /\ StepsAt(st, "calculateLocalInertia") # {}
                 /\ isKinematicObject(b) /\ b.mass = 0

====
